---- MODULE Spec2Model ----
(***************************************************************************)
(* Verification model of app_gemelos_3d.py: the Samsara telemetry fetcher, *)
(* the digital-twin builder with its alert evaluation, and the Streamlit   *)
(* session handlers that store the twins.                                  *)
(*                                                                         *)
(* Python values whose type varies at run time are tagged records          *)
(* [t |-> <type>, v |-> <value>]; None is [t |-> "none"].  Python strings   *)
(* that the program only copies are TLA+ strings; strings the program      *)
(* builds (status_alert and its parts) are sequences of string tokens, so  *)
(* that concatenation and join are sequence operations.  Numbers are       *)
(* integers counted in thousandths (5 is 5000), so that division and       *)
(* round(x, 2) are computed.                                               *)
(***************************************************************************)
EXTENDS Integers, Sequences, FiniteSets, TLC

VARIABLES
    \* st.session_state
    all_gemelos_digitales, selected_vehicle_data, selected_vehicle_name_display,
    \* st.cache_data of fetch_samsara_data_multiple_vehicles
    cache,
    \* control: position in the running script, and who called the fetcher
    pc, caller,
    \* locals of fetch_samsara_data_multiple_vehicles / fetch_and_process_single_vehicle_data
    vehicle_ids_to_fetch, vi, all_vehicle_details_map, all_vehicle_locations,
    all_vehicle_stats, all_vehicle_maintenance_data, combined_stats,
    stat_type_batches, bi,
    \* locals of get_vehicle_maintenance_data
    target_vehicle_id, all_maintenance_items, next_cursor, page_count,
    \* the value returned by a directly called function, and its arguments
    ret, args,
    \* the Samsara API: what it holds, and how many calls have failed so far
    upstream, faults,
    \* history: the HTTP calls issued by the running fetch, the messages shown
    \* by the running script, and the number of user events so far
    http_log, st_msgs, events

vars == << all_gemelos_digitales, selected_vehicle_data, selected_vehicle_name_display,
           cache, pc, caller, vehicle_ids_to_fetch, vi, all_vehicle_details_map,
           all_vehicle_locations, all_vehicle_stats, all_vehicle_maintenance_data,
           combined_stats, stat_type_batches, bi, target_vehicle_id,
           all_maintenance_items, next_cursor, page_count, ret, args, upstream,
           faults, http_log, st_msgs, events >>

-----------------------------------------------------------------------------
(* Bounds of the model *)

\* number of vehicle ids in HARDCODED_VEHICLE_IDS (7 in the source)
NumVehicles == 2
\* transport failures the API may produce in one behaviour
MaxFaults == 2
\* user events (button clicks) in one behaviour
MaxEvents == 2
\* pages of the upstream maintenance listing
MaxPages == 3
\* items on one page of the upstream maintenance listing
MaxItems == 2

-----------------------------------------------------------------------------
(* Python values *)

PyNone == [t |-> "none"]
Num(n) == [t |-> "num", v |-> n]
Str(s) == [t |-> "str", v |-> s]
Bool(b) == [t |-> "bool", v |-> b]
Dict(d) == [t |-> "dict", v |-> d]
List(l) == [t |-> "list", v |-> l]

\* the 'N/A' sentinel, in a field that may hold a number, and in a string field
NA == Str("N/A")

EmptyDict == << >>

\* d.get(k, default) on a dict modelled as a function
Get(d, k, default) == IF k \in DOMAIN d THEN d[k] ELSE default

\* dict.update: the keys of e overwrite those of d
Update(d, e) == [k \in DOMAIN d \cup DOMAIN e |-> IF k \in DOMAIN e THEN e[k] ELSE d[k]]

\* d[k] = v on a dict
Put(d, k, v) == [x \in DOMAIN d \cup {k} |-> IF x = k THEN v ELSE d[x]]

\* truth value of a dict, a list or None (the three the program tests)
Truthy(x) == x # PyNone /\ x # << >>

\* isinstance(x, (int, float)): bool is a subclass of int
IsIntOrFloat(x) == x.t \in {"num", "bool"}

\* the number a numeric value stands for, in thousandths (True is 1, False is 0)
AsNumber(x) == IF x.t = "bool" THEN (IF x.v THEN 1000 ELSE 0) ELSE x.v

\* str(x) of an id: a string is itself, an integer is its decimal digits
PyStr(x) == IF x.t = "str" THEN x.v ELSE ToString(x.v)

\* n / d rounded to the nearest integer, ties to even (n, d integers, d > 0)
RoundDiv(n, d) ==
    LET q == n \div d
        r == n % d
    IN  IF 2 * r < d THEN q
        ELSE IF 2 * r > d THEN q + 1
        ELSE IF q % 2 = 0 THEN q ELSE q + 1

\* round(x / d, 2) of a number in thousandths: a multiple of 10 thousandths
RoundTo2(x, d) == Num(10 * RoundDiv(x, 10 * d))

\* sep.join(parts) on token strings
RECURSIVE Join(_, _)
Join(parts, sep) ==
    IF parts = << >> THEN << >>
    ELSE IF Len(parts) = 1 THEN parts[1]
    ELSE parts[1] \o sep \o Join(Tail(parts), sep)


-----------------------------------------------------------------------------
(* process_vehicle_data: the twin builder and the alert evaluation *)

\* datetime.fromisoformat(s.replace('Z', '+00:00')).strftime("%Y-%m-%d %H:%M:%S")
\* on the timestamps the model's upstream reports; any other string does not parse
IsoParsed ==
    [ s \in {"2025-06-01T10:00:00Z", "2025-06-01T10:05:00+00:00"} |->
        IF s = "2025-06-01T10:00:00Z" THEN "2025-06-01 10:00:00"
        ELSE "2025-06-01 10:05:00" ]

\* lines 318-325: location_updated_at from the location's 'time'
LocationUpdatedAt(loc_data) ==
    LET loc_time_str == Get(loc_data, "time", "N/A")
    IN  IF loc_time_str # "N/A"
        THEN IF loc_time_str \in DOMAIN IsoParsed
             THEN IsoParsed[loc_time_str]
             ELSE loc_time_str          \* except ValueError
        ELSE "N/A"

\* lines 312-316
SpeedMph(loc_data) ==
    LET speed_value_loc == Get(loc_data, "speed", PyNone)
    IN  IF IsIntOrFloat(speed_value_loc)
        THEN RoundTo2(AsNumber(speed_value_loc), 1)
        ELSE NA

\* lines 328-353: a stat scaled by 1/d and rounded to 2 decimals, or the sentinel
ScaledStat(stats_data, key, d) ==
    LET raw == Get(stats_data, key, PyNone)
    IN  IF IsIntOrFloat(raw) THEN RoundTo2(AsNumber(raw), d) ELSE NA

\* lines 355-359: engine_rpm is the raw value itself
EngineRpm(stats_data) ==
    LET engine_rpm_val == Get(stats_data, "engineRpm", PyNone)
    IN  IF IsIntOrFloat(engine_rpm_val) THEN engine_rpm_val ELSE NA

\* lines 370-374: the DTC sequence of the j1939 data, [] when it is not a list
DtcsFromMaintenance(j1939_data) ==
    LET dtcs_from_maintenance == Get(j1939_data, "diagnosticTroubleCodes", List(<< >>))
    IN  IF dtcs_from_maintenance.t = "list" THEN dtcs_from_maintenance.v ELSE << >>

\* an f-string field of a DTC: code.get(key, 'N/A') formatted
FmtCodeField(code, key) == IF key \in DOMAIN code THEN ToString(code[key]) ELSE "N/A"

\* lines 381-383: f"SPN: {spn} (FMI: {fmi})"
DtcInfo(code) ==
    << "SPN: ", FmtCodeField(code, "spnId"), " (FMI: ", FmtCodeField(code, "fmiId"), ")" >>

\* a variant with one reason per DTC, to test the properties against
MutDtcReasonPerCode(dtcs) ==
    [ i \in 1..Len(dtcs) |-> << "Fallas de motor (DTCs: " >> \o DtcInfo(dtcs[i]) \o << ")" >> ]

\* lines 378-384: the DTC reason, as a list of zero or one reasons
DtcReason(dtcs) ==
    IF dtcs # << >> /\ Len(dtcs) > 0
    THEN << << "Fallas de motor (DTCs: " >>
            \o Join([ i \in 1..Len(dtcs) |-> DtcInfo(dtcs[i]) ], << "; " >>)
            \o << ")" >> >>
    ELSE << >>

\* a variant that looks at the stop light first, to test the properties against
MutCheckLightAlertsStopFirst(gemelo_digital) ==
    (IF gemelo_digital.engine_check_light_stop
        THEN << << "Detener (Stop)" >> >> ELSE << >>)
    \o (IF gemelo_digital.engine_check_light_warning
        THEN << << "Advertencia (Warning)" >> >> ELSE << >>)
    \o (IF gemelo_digital.engine_check_light_emissions
        THEN << << "Emisiones (Emissions)" >> >> ELSE << >>)
    \o (IF gemelo_digital.engine_check_light_protect
        THEN << << "Protección (Protect)" >> >> ELSE << >>)

\* lines 386-394: the labels of the lights that are on, in the fixed order
CheckLightAlerts(gemelo_digital) ==
    (IF gemelo_digital.engine_check_light_warning
        THEN << << "Advertencia (Warning)" >> >> ELSE << >>)
    \o (IF gemelo_digital.engine_check_light_emissions
        THEN << << "Emisiones (Emissions)" >> >> ELSE << >>)
    \o (IF gemelo_digital.engine_check_light_protect
        THEN << << "Protección (Protect)" >> >> ELSE << >>)
    \o (IF gemelo_digital.engine_check_light_stop
        THEN << << "Detener (Stop)" >> >> ELSE << >>)

\* lines 396-397: the check-engine reason, as a list of zero or one reasons
LightReason(gemelo_digital) ==
    LET check_light_alerts == CheckLightAlerts(gemelo_digital)
    IN  IF check_light_alerts # << >>
        THEN << << "Luz de Check Engine ON (" >>
                \o Join(check_light_alerts, << ", " >>) \o << ")" >> >>
        ELSE << >>

\* a variant that skips the lights when there is a DTC reason, to test the properties against
MutAlertsShortCircuit(gemelo_digital) ==
    IF DtcReason(gemelo_digital.diagnostic_trouble_codes) # << >>
    THEN DtcReason(gemelo_digital.diagnostic_trouble_codes)
    ELSE LightReason(gemelo_digital)

\* lines 376-397: the list 'alerts' computed from the built record
Alerts(gemelo_digital) ==
    DtcReason(gemelo_digital.diagnostic_trouble_codes) \o LightReason(gemelo_digital)

StatusNormal == << "OPERANDO NORMALMENTE" >>
StatusOffline == << "OFFLINE o SIN DATOS" >>
AlertMarker == "ALERTA: "

\* a variant that turns red for DTCs only, to test the properties against
MutAggregateLightsGreen(gemelo_digital, alerts) ==
    IF alerts # << >>
    THEN [gemelo_digital EXCEPT
            !.status_alert = << AlertMarker >> \o Join(alerts, << "; " >>),
            !.alert_color = IF gemelo_digital.diagnostic_trouble_codes # << >>
                            THEN "red" ELSE "green"]
    ELSE gemelo_digital

\* a variant that reports a twin without location as offline, to test the
\* properties against
MutAggregateOfflineWithoutLocation(gemelo_digital, alerts) ==
    IF alerts # << >>
    THEN [gemelo_digital EXCEPT
            !.status_alert = << AlertMarker >> \o Join(alerts, << "; " >>),
            !.alert_color = "red"]
    ELSE IF gemelo_digital.latitude = NA
    THEN [gemelo_digital EXCEPT !.status_alert = StatusOffline, !.alert_color = "gray"]
    ELSE gemelo_digital

\* lines 399-404: status_alert and alert_color from the list of reasons
AggregateAlerts(gemelo_digital, alerts) ==
    IF alerts # << >>
    THEN [gemelo_digital EXCEPT
            !.status_alert = << AlertMarker >> \o Join(alerts, << "; " >>),
            !.alert_color = "red"]
    ELSE IF gemelo_digital.status_alert # StatusOffline
    THEN [gemelo_digital EXCEPT
            !.status_alert = StatusNormal,
            !.alert_color = "green"]
    ELSE gemelo_digital

\* lines 280-374: the record before the alert evaluation.  now is datetime.now().
BuildRecord(vehicle_details, vehicle_locations, vehicle_stats, vehicle_maintenance_data, now) ==
    LET vehicle_id == Get(vehicle_details, "id", "")
        stats_data == Get(vehicle_stats, vehicle_id, EmptyDict)
        maintenance_data == Get(vehicle_maintenance_data, vehicle_id, EmptyDict)
        loc_data == Get(vehicle_locations, vehicle_id, PyNone)
        has_loc == Truthy(loc_data)
        has_maint == Truthy(maintenance_data)
        j1939_data == IF has_maint THEN Get(maintenance_data, "j1939", EmptyDict)
                      ELSE EmptyDict
        check_engine_light_data == Get(j1939_data, "checkEngineLight", EmptyDict)
    IN  [ vehicle_id |-> vehicle_id,
          vehicle_name |-> Get(vehicle_details, "name", "N/A"),
          make |-> Get(vehicle_details, "make", "N/A"),
          model |-> Get(vehicle_details, "model", "N/A"),
          year |-> Get(vehicle_details, "year", "N/A"),
          license_plate |-> Get(vehicle_details, "licensePlate", "N/A"),
          latitude |-> IF has_loc THEN Get(loc_data, "latitude", NA) ELSE NA,
          longitude |-> IF has_loc THEN Get(loc_data, "longitude", NA) ELSE NA,
          speed_mph |-> IF has_loc THEN SpeedMph(loc_data) ELSE NA,
          current_address |->
              IF has_loc
              THEN Get(Get(loc_data, "reverseGeo", EmptyDict), "formattedLocation", "N/A")
              ELSE "N/A",
          gps_odometer_meters |-> NA,
          location_updated_at |-> IF has_loc THEN LocationUpdatedAt(loc_data) ELSE "N/A",
          engine_hours |-> ScaledStat(stats_data, "obdEngineSeconds", 3600),
          fuel_perc_remaining |-> NA,
          engine_oil_pressure_kpa |-> ScaledStat(stats_data, "engineOilPressureKPa", 1),
          engine_coolant_temperature_c |->
              ScaledStat(stats_data, "engineCoolantTemperatureMilliC", 1000),
          engine_rpm |-> EngineRpm(stats_data),
          ambient_air_temperature_c |->
              ScaledStat(stats_data, "ambientAirTemperatureMilliC", 1000),
          engine_check_light_warning |-> Get(check_engine_light_data, "warningIsOn", FALSE),
          engine_check_light_emissions |->
              Get(check_engine_light_data, "emissionsIsOn", FALSE),
          engine_check_light_protect |-> Get(check_engine_light_data, "protectIsOn", FALSE),
          engine_check_light_stop |-> Get(check_engine_light_data, "stopIsOn", FALSE),
          diagnostic_trouble_codes |->
              IF has_maint THEN DtcsFromMaintenance(j1939_data) ELSE << >>,
          last_data_sync |-> now,
          status_alert |-> StatusNormal,
          alert_color |-> "green" ]

\* a variant that leaves the stats and the maintenance record out of a twin
\* without location, to test the properties against
MutProcessSkipsWithoutLocation(vehicle_details, vehicle_locations, vehicle_stats, vehicle_maintenance_data, now) ==
    LET has_loc == Get(vehicle_details, "id", "") \in DOMAIN vehicle_locations
        gemelo_digital == BuildRecord(vehicle_details, vehicle_locations,
                                      IF has_loc THEN vehicle_stats ELSE EmptyDict,
                                      IF has_loc THEN vehicle_maintenance_data ELSE EmptyDict,
                                      now)
    IN  AggregateAlerts(gemelo_digital, Alerts(gemelo_digital))

\* lines 279-406
process_vehicle_data(vehicle_details, vehicle_locations, vehicle_stats, vehicle_maintenance_data, now) ==
    LET gemelo_digital == BuildRecord(vehicle_details, vehicle_locations, vehicle_stats,
                                      vehicle_maintenance_data, now)
    IN  AggregateAlerts(gemelo_digital, Alerts(gemelo_digital))

\* a variant that reads vehicle_stats[vehicle_id] without a default, to test the
\* properties against
MutRaisesWithoutStatsEntry(vehicle_details, vehicle_stats) ==
    LET vehicle_id == Get(vehicle_details, "id", "")
    IN  vehicle_id \notin DOMAIN vehicle_stats \/ vehicle_stats[vehicle_id] = PyNone

\* line 305: stats_data.get on a None entry of vehicle_stats raises AttributeError
\* (an absent entry defaults to {}; a None entry does not)
ProcessRaises(vehicle_details, vehicle_stats) ==
    LET vehicle_id == Get(vehicle_details, "id", "")
    IN  vehicle_id \in DOMAIN vehicle_stats /\ vehicle_stats[vehicle_id] = PyNone

-----------------------------------------------------------------------------
(* The Samsara API as the program sees it *)

\* HARDCODED_VEHICLE_IDS, the ids shortened to "1", "2", ...
HARDCODED_VEHICLE_IDS == [ k \in 1..NumVehicles |-> ToString(k) ]

\* lines 73-79 and 120-126
all_desired_stat_types ==
    << "engineCoolantTemperatureMilliC", "ambientAirTemperatureMilliC", "engineRpm",
       "obdEngineSeconds", "engineOilPressureKPa" >>

\* the subclasses of requests.exceptions.RequestException a call can raise:
\* a timeout, a network error, and raise_for_status() on a non-2xx answer
RequestExceptions == {"Timeout", "ConnectionError", "HTTPError"}

OkResponse(json) == [ok |-> TRUE, json |-> json]
FailResponse(exc) == [ok |-> FALSE, exc |-> exc]

\* the failures the API may still produce
Failures == IF faults < MaxFaults THEN {FailResponse(e) : e \in RequestExceptions} ELSE {}

SeqToSet(s) == {s[i] : i \in 1..Len(s)}

Restrict(f, S) == [x \in DOMAIN f \cap S |-> f[x]]

\* GET {BASE_URL}/vehicles/{id}
ApiDetails(vehicle_id) == [data |-> upstream.details[vehicle_id]]

\* GET {BASE_URL}/vehicles/locations?ids=...
ApiLocations(vehicle_ids) ==
    [data |-> SelectSeq(upstream.locations, LAMBDA loc : loc.id \in SeqToSet(vehicle_ids))]

\* GET {BASE_URL}/vehicles/stats?types=...: every vehicle, the requested types only
ApiStats(stat_types) ==
    [data |-> [ i \in 1..Len(upstream.stats) |->
                 Restrict(upstream.stats[i], {"id"} \cup SeqToSet(stat_types)) ]]

\* the truth value of a cursor: None and '' are false
CursorTruthy(cursor) == cursor # PyNone /\ cursor # Str("")

\* GET /v1/fleet/maintenance/list[?after=cursor]: the first page without a cursor,
\* else the page that follows the one whose endCursor was sent
ApiMaintenance(params) ==
    IF "after" \notin DOMAIN params THEN upstream.maintenance[1]
    ELSE LET prev == CHOOSE i \in 1..Len(upstream.maintenance) :
                        Get(Get(upstream.maintenance[i], "pagination", EmptyDict),
                            "endCursor", PyNone) = params.after
         IN  upstream.maintenance[prev + 1]

-----------------------------------------------------------------------------
(* The four fetchers, as functions of the response they get *)

\* lines 149-164: the 'data' of the answer, None on any RequestException
DetailsCaught == RequestExceptions

get_single_vehicle_details(resp) ==
    IF resp.ok THEN [raised |-> FALSE, value |-> Get(resp.json, "data", PyNone)]
    ELSE IF resp.exc \in DetailsCaught THEN [raised |-> FALSE, value |-> PyNone]
    ELSE [raised |-> TRUE, value |-> PyNone]

\* lines 166-183: {id: location}, {} on any RequestException
LocationsCaught == RequestExceptions

get_vehicle_locations(resp) ==
    IF resp.ok
    THEN LET locations_data == Get(resp.json, "data", << >>)
         IN  [raised |-> FALSE,
              value |-> [ id \in {locations_data[i].id : i \in 1..Len(locations_data)} |->
                            LET i == CHOOSE j \in 1..Len(locations_data) :
                                       /\ locations_data[j].id = id
                                       /\ \A k \in (j+1)..Len(locations_data) :
                                              locations_data[k].id # id
                            IN  locations_data[i].location ]]
    ELSE IF resp.exc \in LocationsCaught THEN [raised |-> FALSE, value |-> EmptyDict]
    ELSE [raised |-> TRUE, value |-> EmptyDict]

\* the width and the step of the slicing (lines 81 and 127), and the most stat
\* types get_all_vehicle_stats_and_filter accepts (line 186)
BatchWidth == 4
BatchStep == 4
MaxStatTypes == 4

\* a variant that rejects the empty batch only, to test the properties against
MutPreconditionEmptyOnly(stat_types) == stat_types = << >>

\* line 186: the batch is rejected before any request
StatsPreconditionViolated(stat_types) == stat_types = << >> \/ Len(stat_types) > MaxStatTypes

\* lines 201-208: the requested stats of one item, an envelope {value: x} opened
StatsOfItem(item, stat_types) ==
    [ stat_type \in SeqToSet(stat_types) \cap DOMAIN item |->
        IF item[stat_type].t = "dict" /\ "value" \in DOMAIN item[stat_type].v
        THEN item[stat_type].v.value
        ELSE item[stat_type] ]

\* a variant that catches timeouts only, to test the properties against
MutCaughtTimeoutOnly == {"Timeout"}

\* lines 193-222: the stats of the first item whose id is the target's, else None;
\* the handlers of lines 215-222 catch Timeout and RequestException
StatsCaught == {"Timeout"} \cup RequestExceptions

get_all_vehicle_stats_and_filter(target, stat_types, resp) ==
    IF StatsPreconditionViolated(stat_types)
    THEN [raised |-> FALSE, value |-> PyNone, called |-> FALSE]
    ELSE IF resp.ok
    THEN LET data == Get(resp.json, "data", << >>)
             hits == {i \in 1..Len(data) : Get(data[i], "id", "") = target}
         IN  IF hits = {} THEN [raised |-> FALSE, value |-> PyNone, called |-> TRUE]
             ELSE LET first == CHOOSE i \in hits : \A j \in hits : i <= j
                  IN  [raised |-> FALSE, value |-> StatsOfItem(data[first], stat_types),
                       called |-> TRUE]
    ELSE IF resp.exc \in StatsCaught
    THEN [raised |-> FALSE, value |-> PyNone, called |-> TRUE]
    ELSE [raised |-> TRUE, value |-> PyNone, called |-> TRUE]

\* the answers a stats call may get; none is awaited when the batch is rejected
NoResponse == OkResponse(EmptyDict)

StatsResponses(stat_types) ==
    IF StatsPreconditionViolated(stat_types) THEN {NoResponse}
    ELSE {OkResponse(ApiStats(stat_types))} \cup Failures

\* a variant that slices with step 3, to test the properties against
MutBatchesOverlapping(types) ==
    [ b \in 1..((Len(types) + 2) \div 3) |->
        SubSeq(types, (b - 1) * 3 + 1,
               IF (b - 1) * 3 + BatchWidth < Len(types)
               THEN (b - 1) * 3 + BatchWidth ELSE Len(types)) ]

\* lines 81 and 127: [types[i:i + 4] for i in range(0, len(types), 4)]
Batches(types) ==
    [ b \in 1..((Len(types) + BatchStep - 1) \div BatchStep) |->
        SubSeq(types, (b - 1) * BatchStep + 1,
               IF (b - 1) * BatchStep + BatchWidth < Len(types)
               THEN (b - 1) * BatchStep + BatchWidth ELSE Len(types)) ]

\* lines 240-245: the items of a page, 'vehicles' when 'vehicleMaintenance' is empty
PageItems(response_data) ==
    LET current_page_items == Get(response_data, "vehicleMaintenance", << >>)
    IN  IF current_page_items = << >> THEN Get(response_data, "vehicles", << >>)
        ELSE current_page_items

\* lines 247-248
PageCursor(response_data) ==
    Get(Get(response_data, "pagination", EmptyDict), "endCursor", PyNone)

\* lines 253-264: both handlers return None
MaintenanceCaught == {"Timeout"} \cup RequestExceptions

\* lines 266-275: the first accumulated item whose id, as a string, is the target's
FoundVehicleData(items, target) ==
    LET hits == {i \in 1..Len(items) :
                    "id" \in DOMAIN items[i] /\ PyStr(items[i].id) = PyStr(Str(target))}
    IN  IF hits = {} THEN PyNone
        ELSE LET first == CHOOSE i \in hits : \A j \in hits : i <= j
             IN  IF Truthy(items[first]) THEN items[first] ELSE PyNone

-----------------------------------------------------------------------------
(* What the API holds *)

IntId(n) == [t |-> "int", v |-> n]

VehicleNames == << "PR1889", "PR1563", "PR1567", "PR1570" >>

DetailsOf(k, name) ==
    [id |-> ToString(k), name |-> name, make |-> "KENWORTH", model |-> "T680",
     year |-> "2022", licensePlate |-> "77AX9K"]

LocationOf(k) ==
    [latitude |-> Num(19432 + k), longitude |-> Num(0 - 99133), speed |-> Num(55554),
     reverseGeo |-> [formattedLocation |-> "Av. Reforma 1, CDMX"],
     time |-> "2025-06-01T10:00:00Z"]

\* every stat in an envelope {time, value}
StatsEnveloped(k) ==
    [id |-> ToString(k),
     engineCoolantTemperatureMilliC |->
         Dict([time |-> "2025-06-01T10:00:00Z", value |-> Num(85512000)]),
     ambientAirTemperatureMilliC |->
         Dict([time |-> "2025-06-01T10:00:00Z", value |-> Num(21337000)]),
     engineRpm |-> Dict([time |-> "2025-06-01T10:00:00Z", value |-> Num(1200000)]),
     obdEngineSeconds |-> Dict([time |-> "2025-06-01T10:00:00Z", value |-> Num(12345000)]),
     engineOilPressureKPa |->
         Dict([time |-> "2025-06-01T10:00:00Z", value |-> Num(310126)])]

\* bare values, and no oil pressure reported
StatsBare(k) ==
    [id |-> ToString(k),
     engineCoolantTemperatureMilliC |-> Num(85512000),
     ambientAirTemperatureMilliC |-> PyNone,
     engineRpm |-> Num(0),
     obdEngineSeconds |-> Num(12345000)]

Dtc(spn, fmi) == [spnId |-> spn, fmiId |-> fmi, fmiText |-> "Voltage", occurrenceCount |-> 2]

Lights(w, e, p, s) == [warningIsOn |-> w, emissionsIsOn |-> e, protectIsOn |-> p, stopIsOn |-> s]

MaintItem(id, lights, dtcs) ==
    [id |-> id, j1939 |-> [checkEngineLight |-> lights, diagnosticTroubleCodes |-> List(dtcs)]]

\* everything reported; the maintenance listing has two pages, with vehicle 2 (no
\* fault) on the first and vehicle 1 (two DTCs, two lights) on the second
WorldFull ==
    [ details |-> [ id \in SeqToSet(HARDCODED_VEHICLE_IDS) |->
                      LET k == CHOOSE k \in 1..NumVehicles : ToString(k) = id
                      IN  DetailsOf(k, VehicleNames[((k - 1) % Len(VehicleNames)) + 1]) ],
      locations |-> [ k \in 1..NumVehicles |-> [id |-> ToString(k), location |-> LocationOf(k)] ],
      stats |-> [ k \in 1..NumVehicles |-> StatsEnveloped(k) ],
      maintenance |->
        << [ vehicleMaintenance |-> << MaintItem(IntId(2), Lights(FALSE, FALSE, FALSE, FALSE), << >>) >>,
             pagination |-> [endCursor |-> Str("c1"), hasNextPage |-> TRUE] ],
           [ vehicleMaintenance |->
               << MaintItem(IntId(1), Lights(TRUE, FALSE, FALSE, TRUE),
                            << Dtc(100, 3), Dtc(200, 1) >>) >>,
             pagination |-> [endCursor |-> Str(""), hasNextPage |-> FALSE] ] >> ]

\* no location for vehicle 1, no stats for the last vehicle, bare stat values, the
\* same name for every vehicle, and a one-page listing under the fallback key with
\* vehicle 1 (one light, no DTC)
WorldSparse ==
    [ details |-> [ id \in SeqToSet(HARDCODED_VEHICLE_IDS) |->
                      LET k == CHOOSE k \in 1..NumVehicles : ToString(k) = id
                      IN  DetailsOf(k, VehicleNames[2]) ],
      locations |-> [ k \in 1..(NumVehicles - 1) |->
                        [id |-> ToString(k + 1), location |-> LocationOf(k + 1)] ],
      stats |-> [ k \in 1..(NumVehicles - 1) |-> StatsBare(k) ],
      maintenance |->
        << [ vehicleMaintenance |-> << >>,
             vehicles |-> << MaintItem(Str("1"), Lights(FALSE, TRUE, FALSE, FALSE), << >>) >> ] >> ]

Worlds == {WorldFull, WorldSparse}

-----------------------------------------------------------------------------
(* State: groups of variables, and the state of a script that is not fetching *)

session == << all_gemelos_digitales, selected_vehicle_data, selected_vehicle_name_display >>
fleet_maps == << all_vehicle_details_map, all_vehicle_locations, all_vehicle_stats,
                 all_vehicle_maintenance_data >>
stats_locals == << combined_stats, stat_type_batches, bi >>
maint_locals == << target_vehicle_id, all_maintenance_items, next_cursor, page_count >>
direct == << ret, args >>

\* an uncaught exception ends the script run where it is
Crash ==
    /\ pc' = "crashed"
    /\ UNCHANGED << session, cache, caller, vehicle_ids_to_fetch, vi, fleet_maps,
                    stats_locals, maint_locals, direct, upstream, faults, http_log,
                    st_msgs, events >>

NoLocals ==
    /\ vehicle_ids_to_fetch' = << >>
    /\ vi' = 0
    /\ all_vehicle_details_map' = EmptyDict
    /\ all_vehicle_locations' = EmptyDict
    /\ all_vehicle_stats' = EmptyDict
    /\ all_vehicle_maintenance_data' = EmptyDict
    /\ combined_stats' = EmptyDict
    /\ stat_type_batches' = << >>
    /\ bi' = 0
    /\ target_vehicle_id' = ""
    /\ all_maintenance_items' = << >>
    /\ next_cursor' = PyNone
    /\ page_count' = 0

Call(fn, vehicle, n, ok) == [fn |-> fn, vehicle |-> vehicle, n |-> n, ok |-> ok]

FaultsAfter(resp) == IF resp.ok THEN faults ELSE faults + 1

\* the keys of a dict filled in the order of HARDCODED_VEHICLE_IDS
KeysInOrder(d) == SelectSeq(HARDCODED_VEHICLE_IDS, LAMBDA id : id \in DOMAIN d)

\* lines 528-530 and 556-558: one twin per entry of the details map
BuildFleet(maps, now) ==
    [ vehicle_id \in DOMAIN maps.details |->
        process_vehicle_data(maps.details[vehicle_id], maps.locations, maps.stats,
                             maps.maintenance, now) ]

BuildRaises(maps) ==
    \E vehicle_id \in DOMAIN maps.details : ProcessRaises(maps.details[vehicle_id], maps.stats)

\* lines 537-543 and 561-564: the first twin of the store is selected
SelectFirst(store) ==
    LET first_vehicle_id == KeysInOrder(store)[1]
    IN  /\ selected_vehicle_data' = store[first_vehicle_id]
        /\ selected_vehicle_name_display' =
               Get(store[first_vehicle_id], "vehicle_name", first_vehicle_id)

SelectNone ==
    /\ selected_vehicle_data' = PyNone
    /\ selected_vehicle_name_display' = ""

\* line 63: the start of fetch_samsara_data_multiple_vehicles
StartFleetFetch(who) ==
    /\ caller' = who
    /\ pc' = "locations"
    /\ vehicle_ids_to_fetch' = HARDCODED_VEHICLE_IDS
    /\ vi' = 0
    /\ all_vehicle_details_map' = EmptyDict
    /\ all_vehicle_locations' = EmptyDict
    /\ all_vehicle_stats' = EmptyDict
    /\ all_vehicle_maintenance_data' = EmptyDict
    /\ combined_stats' = EmptyDict
    /\ stat_type_batches' = Batches(all_desired_stat_types)
    /\ bi' = 0
    /\ UNCHANGED maint_locals
    /\ http_log' = << >>

-----------------------------------------------------------------------------
(* The script run: initial load (lines 551-571) *)

\* lines 555-571 on the maps the fetch returned
InitialLoad(maps) ==
    IF BuildRaises(maps) THEN Crash
    ELSE /\ IF Truthy(maps.details)
            THEN LET store == Update(all_gemelos_digitales, BuildFleet(maps, events))
                 IN  /\ all_gemelos_digitales' = store
                     /\ IF Truthy(store) THEN SelectFirst(store)
                        ELSE UNCHANGED << selected_vehicle_data,
                                          selected_vehicle_name_display >>
            ELSE /\ UNCHANGED all_gemelos_digitales
                 /\ SelectNone
         /\ pc' = "render"

\* the store is empty and the fetch is answered from st.cache_data
RunLoadCached ==
    /\ pc = "run"
    /\ ~Truthy(all_gemelos_digitales)
    /\ cache # PyNone
    /\ caller' = "cached"
    /\ st_msgs' = IF Truthy(cache.details) THEN << >> ELSE << << "warning", "fleet" >> >>
    /\ http_log' = << >>
    /\ InitialLoad(cache)
    /\ UNCHANGED << cache, vehicle_ids_to_fetch, vi, fleet_maps, stats_locals,
                    maint_locals, direct, upstream, faults, events >>

\* the store is empty and the fetch runs
RunLoadFetch ==
    /\ pc = "run"
    /\ ~Truthy(all_gemelos_digitales)
    /\ cache = PyNone
    /\ StartFleetFetch("initial")
    /\ st_msgs' = << >>
    /\ UNCHANGED << session, cache, direct, upstream, faults, events >>

\* the store holds twins: no load
RunNoLoad ==
    /\ pc = "run"
    /\ Truthy(all_gemelos_digitales)
    /\ pc' = "render"
    /\ caller' = "none"
    /\ st_msgs' = << >>
    /\ http_log' = << >>
    /\ UNCHANGED << session, cache, vehicle_ids_to_fetch, vi, fleet_maps, stats_locals,
                    maint_locals, direct, upstream, faults, events >>

-----------------------------------------------------------------------------
(* fetch_samsara_data_multiple_vehicles (lines 63-107) and                  *)
(* fetch_and_process_single_vehicle_data (lines 110-146), one HTTP call per *)
(* step                                                                     *)

IsFleet == caller \in {"initial", "full"}

\* the loop of line 84 moves to the vehicle at index i, or ends
LoopPc(i) == IF i > Len(vehicle_ids_to_fetch) THEN "build" ELSE "details"

\* a variant with maintenance before stats, to test the properties against
MutFleetMaintenanceFirst == << "maint", "stats" >>

\* what follows a successful details fetch, in order: lines 92-105 in the fleet
\* fetch (stats batches, then maintenance)
FleetPhases == << "stats", "maint" >>

\* lines 118-137 in the single-vehicle fetch (locations, stats batches, maintenance)
SinglePhases == << "s_locations", "stats", "maint" >>

Phases == IF IsFleet THEN FleetPhases ELSE SinglePhases

\* <<pc, vi>> once phase p of the current vehicle is over
NextStep(p) ==
    LET k == CHOOSE j \in 1..Len(Phases) : Phases[j] = p
    IN  IF k < Len(Phases) THEN << Phases[k + 1], vi >>
        ELSE IF IsFleet THEN << LoopPc(vi + 1), vi + 1 >>
        ELSE << "s_build", vi >>

\* lines 92 and 128 (combined_stats = {}), and lines 226-228 (the locals of
\* get_vehicle_maintenance_data at its start), for the vehicle whose details
\* were fetched
StartVehicle(target) ==
    /\ combined_stats' = EmptyDict
    /\ bi' = 1
    /\ target_vehicle_id' = target
    /\ all_maintenance_items' = << >>
    /\ next_cursor' = PyNone
    /\ page_count' = 0

\* lines 70-71
FetchLocations ==
    /\ pc = "locations"
    /\ \E resp \in {OkResponse(ApiLocations(vehicle_ids_to_fetch))} \cup Failures :
         LET r == get_vehicle_locations(resp)
         IN  IF r.raised THEN Crash
             ELSE /\ all_vehicle_locations' = Update(EmptyDict, r.value)
                  /\ http_log' = Append(http_log, Call("locations", "", 0, resp.ok))
                  /\ st_msgs' = IF resp.ok THEN st_msgs
                                ELSE Append(st_msgs, << "warning", "locations" >>)
                  /\ faults' = FaultsAfter(resp)
                  /\ vi' = 1
                  /\ pc' = LoopPc(1)
                  /\ UNCHANGED << session, cache, caller, vehicle_ids_to_fetch,
                                  all_vehicle_details_map, all_vehicle_stats,
                                  all_vehicle_maintenance_data, stats_locals,
                                  maint_locals, direct, upstream, events >>

\* a variant that ends the loop at the first failure, to test the properties against
MutAbortOnDetailsFailure(i) == Len(vehicle_ids_to_fetch) + 1

\* line 90: after a failed details fetch the loop goes on with the next id
AfterDetailsFailure(i) == i + 1

\* lines 85-92
FetchDetails ==
    /\ pc = "details"
    /\ LET vehicle_id_to_fetch == vehicle_ids_to_fetch[vi]
       IN  \E resp \in {OkResponse(ApiDetails(vehicle_id_to_fetch))} \cup Failures :
             LET r == get_single_vehicle_details(resp)
             IN  IF r.raised THEN Crash
                 ELSE /\ http_log' = Append(http_log,
                                            Call("details", vehicle_id_to_fetch, 0, resp.ok))
                      /\ faults' = FaultsAfter(resp)
                      /\ IF Truthy(r.value)
                         THEN /\ all_vehicle_details_map' =
                                   Put(all_vehicle_details_map, vehicle_id_to_fetch, r.value)
                              /\ StartVehicle(vehicle_id_to_fetch)
                              /\ pc' = Phases[1]
                              /\ st_msgs' = st_msgs
                              /\ UNCHANGED vi
                         ELSE /\ st_msgs' = Append(Append(st_msgs, << "error", "details_log" >>),
                                                   << "error", "details" >>)
                              /\ vi' = AfterDetailsFailure(vi)
                              /\ pc' = LoopPc(vi')
                              /\ UNCHANGED << all_vehicle_details_map, combined_stats, bi,
                                              maint_locals >>
                      /\ UNCHANGED << session, cache, caller, vehicle_ids_to_fetch,
                                      all_vehicle_locations, all_vehicle_stats,
                                      all_vehicle_maintenance_data, stat_type_batches,
                                      direct, upstream, events >>

\* a variant that keeps the last returned batch only, to test the properties against
MutMergeReplaces(combined, fetched) == IF Truthy(fetched) THEN fetched ELSE combined

\* lines 95-96 and 131-132: a batch that was returned is merged into combined_stats
MergeBatch(combined, fetched) == IF Truthy(fetched) THEN Update(combined, fetched) ELSE combined

\* lines 98-101 (the fleet fetch stores combined_stats only when it is not empty)
\* and line 134 (the single-vehicle fetch always passes {vehicle_id: combined_stats})
StoreStats(target, combined) ==
    IF IsFleet
    THEN (IF Truthy(combined) THEN Put(all_vehicle_stats, target, combined)
          ELSE all_vehicle_stats)
    ELSE Put(EmptyDict, target, combined)

\* lines 93-101 and 129-134: one call of get_all_vehicle_stats_and_filter in the
\* loop over the batches; after the last batch the stats are stored
FetchStatsBatch ==
    /\ pc = "stats"
    /\ LET target == vehicle_ids_to_fetch[vi]
           batch == stat_type_batches[bi]
           Done(fetched, failed, called) ==
               LET combined == MergeBatch(combined_stats, fetched)
                   last == bi = Len(stat_type_batches)
                   none == last /\ IsFleet /\ ~Truthy(combined)
               IN  /\ combined_stats' = combined
                   /\ http_log' = IF called
                                  THEN Append(http_log, Call("stats", target, bi, ~failed))
                                  ELSE http_log
                   /\ st_msgs' = (IF failed \/ ~called
                                  THEN Append(st_msgs, << "error", "stats" >>) ELSE st_msgs)
                                 \o (IF none THEN << << "warning", "no_stats" >> >> ELSE << >>)
                   /\ IF last
                      THEN /\ all_vehicle_stats' = StoreStats(target, combined)
                           /\ pc' = NextStep("stats")[1]
                           /\ vi' = NextStep("stats")[2]
                           /\ UNCHANGED bi
                      ELSE /\ bi' = bi + 1
                           /\ pc' = "stats"
                           /\ UNCHANGED << all_vehicle_stats, vi >>
                   /\ UNCHANGED << session, cache, caller, vehicle_ids_to_fetch,
                                   all_vehicle_details_map, all_vehicle_locations,
                                   all_vehicle_maintenance_data, stat_type_batches,
                                   maint_locals, direct, upstream, events >>
       IN  \E resp \in StatsResponses(batch) :
             LET r == get_all_vehicle_stats_and_filter(target, batch, resp)
             IN  IF r.raised THEN Crash
                 ELSE Done(r.value, ~resp.ok, r.called) /\ faults' = FaultsAfter(resp)

-----------------------------------------------------------------------------
(* get_vehicle_maintenance_data (lines 224-275), one page per step *)

\* lines 104-105 (the fleet fetch stores a record that was found), line 137 (the
\* single-vehicle fetch passes {vehicle_id: result}, None included), or the
\* function's own return when it is called directly
MaintenanceReturns(value) ==
    /\ IF caller = "direct"
       THEN /\ ret' = value
            /\ pc' = "done"
            /\ UNCHANGED << all_vehicle_maintenance_data, vi >>
       ELSE /\ all_vehicle_maintenance_data' =
                 IF IsFleet
                 THEN (IF Truthy(value)
                       THEN Put(all_vehicle_maintenance_data, target_vehicle_id, value)
                       ELSE all_vehicle_maintenance_data)
                 ELSE Put(EmptyDict, target_vehicle_id, value)
            /\ pc' = NextStep("maint")[1]
            /\ vi' = NextStep("maint")[2]
            /\ UNCHANGED ret
    /\ UNCHANGED << session, cache, caller, vehicle_ids_to_fetch, all_vehicle_details_map,
                    all_vehicle_locations, all_vehicle_stats, stats_locals,
                    target_vehicle_id, args, upstream, events >>

\* a variant that goes on after a null cursor, to test the properties against
MutLoopEndsOnEmptyStringOnly(cursor) == cursor = Str("")

\* lines 250-251: the loop ends when the cursor is empty or absent
LoopEnds(cursor) == ~CursorTruthy(cursor)

\* a variant that looks the target up in what was accumulated, to test the properties against
MutPartialOnFailure(items, target) == FoundVehicleData(items, target)

\* lines 253-264: what the call returns when a page request fails
OnPageFailure(items, target) == PyNone

\* a variant that keeps the last page only, to test the properties against
MutKeepLastPage(items, page_items) == page_items

\* lines 245: the items of the page are added to the accumulated list
Accumulate(items, page_items) == items \o page_items

\* lines 230-264: one iteration of the loop
MaintenancePage ==
    /\ pc = "maint"
    /\ LET params == IF CursorTruthy(next_cursor) THEN [after |-> next_cursor] ELSE EmptyDict
       IN  \E resp \in {OkResponse(ApiMaintenance(params))} \cup Failures :
             /\ page_count' = page_count + 1
             /\ http_log' = Append(http_log,
                                   Call("maintenance", target_vehicle_id, page_count', resp.ok))
             /\ faults' = FaultsAfter(resp)
             /\ IF resp.ok
                THEN /\ all_maintenance_items' =
                          Accumulate(all_maintenance_items, PageItems(resp.json))
                     /\ next_cursor' = PageCursor(resp.json)
                     /\ pc' = IF LoopEnds(next_cursor') THEN "maint_filter" ELSE "maint"
                     /\ st_msgs' = st_msgs
                     /\ UNCHANGED << session, cache, caller, vehicle_ids_to_fetch, vi,
                                     fleet_maps, stats_locals, target_vehicle_id, direct,
                                     upstream, events >>
                ELSE IF resp.exc \in MaintenanceCaught
                THEN /\ st_msgs' = Append(st_msgs, << "error", "maintenance" >>)
                     /\ UNCHANGED << all_maintenance_items, next_cursor >>
                     /\ MaintenanceReturns(OnPageFailure(all_maintenance_items,
                                                         target_vehicle_id))
                ELSE /\ pc' = "crashed"
                     /\ UNCHANGED << session, cache, caller, vehicle_ids_to_fetch, vi,
                                     fleet_maps, stats_locals, target_vehicle_id,
                                     all_maintenance_items, next_cursor, direct, upstream,
                                     events, st_msgs >>

\* lines 266-275: the lookup in the accumulated list
MaintenanceFilter ==
    /\ pc = "maint_filter"
    /\ MaintenanceReturns(FoundVehicleData(all_maintenance_items, target_vehicle_id))
    /\ UNCHANGED << all_maintenance_items, next_cursor, page_count, faults, http_log,
                    st_msgs >>

-----------------------------------------------------------------------------
(* The handlers of the page *)

\* lines 521-524: the full-fleet button clears the cache and fetches
ClickFullFleet ==
    /\ pc = "idle"
    /\ events < MaxEvents
    /\ events' = events + 1
    /\ cache' = PyNone
    /\ StartFleetFetch("full")
    /\ st_msgs' = << >>
    /\ UNCHANGED << session, direct, upstream, faults >>

\* the maps fetch_samsara_data_multiple_vehicles returns (line 107)
FetchedMaps ==
    [details |-> all_vehicle_details_map, locations |-> all_vehicle_locations,
     stats |-> all_vehicle_stats, maintenance |-> all_vehicle_maintenance_data]

\* lines 526-547: the store is replaced by the twins of the fetched details
BuildFull ==
    /\ pc = "build"
    /\ caller = "full"
    /\ IF BuildRaises(FetchedMaps) THEN Crash
       ELSE /\ cache' = FetchedMaps
            /\ LET new_all_gemelos == IF Truthy(all_vehicle_details_map)
                                      THEN BuildFleet(FetchedMaps, events) ELSE EmptyDict
               IN  /\ all_gemelos_digitales' = new_all_gemelos
                   /\ IF Truthy(new_all_gemelos) THEN SelectFirst(new_all_gemelos)
                      ELSE SelectNone
            /\ st_msgs' = (IF Truthy(all_vehicle_details_map) THEN st_msgs
                           ELSE Append(st_msgs, << "warning", "fleet" >>))
                          \o << << "success", "fleet" >> >>
            /\ pc' = "run"
            /\ UNCHANGED << caller, vehicle_ids_to_fetch, vi, fleet_maps, stats_locals,
                            maint_locals, direct, upstream, faults, http_log, events >>

\* lines 553-571: the initial load, after its fetch
BuildInitial ==
    /\ pc = "build"
    /\ caller = "initial"
    /\ cache' = IF BuildRaises(FetchedMaps) THEN cache ELSE FetchedMaps
    /\ InitialLoad(FetchedMaps)
    /\ st_msgs' = IF Truthy(all_vehicle_details_map) \/ BuildRaises(FetchedMaps) THEN st_msgs
                  ELSE Append(st_msgs, << "warning", "fleet" >>)
    /\ UNCHANGED << caller, vehicle_ids_to_fetch, vi, fleet_maps, stats_locals,
                    maint_locals, direct, upstream, faults, http_log, events >>

\* lines 645-646: the update button of the selected vehicle
ClickUpdate ==
    /\ pc = "idle"
    /\ events < MaxEvents
    /\ Truthy(all_gemelos_digitales)
    /\ Truthy(selected_vehicle_data)
    /\ events' = events + 1
    /\ caller' = "update"
    /\ pc' = "s_details"
    /\ vehicle_ids_to_fetch' = << selected_vehicle_data.vehicle_id >>
    /\ vi' = 1
    /\ all_vehicle_details_map' = EmptyDict
    /\ all_vehicle_locations' = EmptyDict
    /\ all_vehicle_stats' = EmptyDict
    /\ all_vehicle_maintenance_data' = EmptyDict
    /\ combined_stats' = EmptyDict
    /\ stat_type_batches' = Batches(all_desired_stat_types)
    /\ bi' = 0
    /\ http_log' = << >>
    /\ st_msgs' = << >>
    /\ UNCHANGED << session, cache, maint_locals, direct, upstream, faults >>

\* lines 113-116: without details the function returns None and the handler
\* (line 647) leaves the session as it is
SingleDetails ==
    /\ pc = "s_details"
    /\ LET vehicle_id == vehicle_ids_to_fetch[vi]
       IN  \E resp \in {OkResponse(ApiDetails(vehicle_id))} \cup Failures :
             LET r == get_single_vehicle_details(resp)
             IN  IF r.raised THEN Crash
                 ELSE /\ http_log' = Append(http_log, Call("details", vehicle_id, 0, resp.ok))
                      /\ faults' = FaultsAfter(resp)
                      /\ IF Truthy(r.value)
                         THEN /\ all_vehicle_details_map' = Put(EmptyDict, vehicle_id, r.value)
                              /\ StartVehicle(vehicle_id)
                              /\ pc' = Phases[1]
                              /\ st_msgs' = st_msgs
                         ELSE /\ st_msgs' = Append(Append(st_msgs, << "error", "details_log" >>),
                                                   << "error", "details" >>)
                              /\ pc' = "render"
                              /\ UNCHANGED << all_vehicle_details_map, combined_stats, bi,
                                              maint_locals >>
                      /\ UNCHANGED << session, cache, caller, vehicle_ids_to_fetch, vi,
                                      all_vehicle_locations, all_vehicle_stats,
                                      all_vehicle_maintenance_data, stat_type_batches,
                                      direct, upstream, events >>

\* line 118
SingleLocations ==
    /\ pc = "s_locations"
    /\ \E resp \in {OkResponse(ApiLocations(vehicle_ids_to_fetch))} \cup Failures :
         LET r == get_vehicle_locations(resp)
         IN  IF r.raised THEN Crash
             ELSE /\ all_vehicle_locations' = r.value
                  /\ http_log' = Append(http_log,
                                        Call("locations", vehicle_ids_to_fetch[vi], 0, resp.ok))
                  /\ st_msgs' = IF resp.ok THEN st_msgs
                                ELSE Append(st_msgs, << "warning", "locations" >>)
                  /\ faults' = FaultsAfter(resp)
                  /\ pc' = NextStep("s_locations")[1]
                  /\ UNCHANGED << session, cache, caller, vehicle_ids_to_fetch, vi,
                                  all_vehicle_details_map, all_vehicle_stats,
                                  all_vehicle_maintenance_data, stats_locals,
                                  maint_locals, direct, upstream, events >>

\* a variant that keeps only the refreshed twin in the store, to test the
\* properties against
MutStoreOnlyRefreshed(store, selected_vehicle_id, updated_gemelo) ==
    Put(EmptyDict, selected_vehicle_id, updated_gemelo)

\* line 648: all_gemelos_digitales[selected_vehicle_id] = updated_gemelo
StoreRefreshed(store, selected_vehicle_id, updated_gemelo) ==
    Put(store, selected_vehicle_id, updated_gemelo)

\* lines 139-146 and 647-652: the twin is built, stored under the selected id and
\* selected, and the script reruns
SingleBuild ==
    /\ pc = "s_build"
    /\ LET selected_vehicle_id == vehicle_ids_to_fetch[vi]
           vehicle_details == all_vehicle_details_map[selected_vehicle_id]
       IN  IF ProcessRaises(vehicle_details, all_vehicle_stats) THEN Crash
           ELSE LET updated_gemelo ==
                        process_vehicle_data(vehicle_details, all_vehicle_locations,
                                             all_vehicle_stats,
                                             all_vehicle_maintenance_data, events)
                IN  /\ all_gemelos_digitales' =
                           StoreRefreshed(all_gemelos_digitales, selected_vehicle_id,
                                          updated_gemelo)
                    /\ selected_vehicle_data' = updated_gemelo
                    /\ st_msgs' = Append(st_msgs, << "success", "single" >>)
                    /\ pc' = "run"
                    /\ UNCHANGED << selected_vehicle_name_display, cache, caller,
                                    vehicle_ids_to_fetch, vi, fleet_maps, stats_locals,
                                    maint_locals, direct, upstream, faults, http_log,
                                    events >>

\* vehicle_names of line 595, in the order of the store
VehicleNamesOf(store) ==
    [ i \in 1..Len(KeysInOrder(store)) |->
        Get(store[KeysInOrder(store)[i]], "vehicle_name", KeysInOrder(store)[i]) ]

\* lines 597-610: what the selectbox shows when the user picks nothing: the
\* option at default_index
SelectboxDefault(store, name_display) ==
    LET vehicle_names == VehicleNamesOf(store)
        hits == {i \in 1..Len(vehicle_names) : vehicle_names[i] = name_display}
    IN  IF hits = {} THEN vehicle_names[1]
        ELSE vehicle_names[CHOOSE i \in hits : \A j \in hits : i <= j]

\* lines 615-619: the first twin of that name
FirstOfName(store, name) ==
    LET vehicle_names == VehicleNamesOf(store)
        hits == {i \in 1..Len(vehicle_names) : vehicle_names[i] = name}
    IN  store[KeysInOrder(store)[CHOOSE i \in hits : \A j \in hits : i <= j]]

\* lines 574-725: the page is drawn; the script ends, and with it its locals and
\* the messages and calls of this run
Render ==
    /\ pc = "render"
    /\ IF /\ Truthy(all_gemelos_digitales)
          /\ Truthy(selected_vehicle_data)
          /\ SelectboxDefault(all_gemelos_digitales, selected_vehicle_name_display)
                 # selected_vehicle_name_display
       THEN LET name == SelectboxDefault(all_gemelos_digitales,
                                         selected_vehicle_name_display)
            IN  /\ selected_vehicle_name_display' = name
                /\ selected_vehicle_data' = FirstOfName(all_gemelos_digitales, name)
                /\ pc' = "run"
       ELSE /\ pc' = "idle"
            /\ UNCHANGED << selected_vehicle_data, selected_vehicle_name_display >>
    /\ caller' = "none"
    /\ NoLocals
    /\ http_log' = << >>
    /\ st_msgs' = << >>
    /\ UNCHANGED << all_gemelos_digitales, cache, direct, upstream, faults, events >>

\* lines 604-620: the user picks another name in the selectbox; the name is
\* displayed, the first twin of that name is selected, and the script reruns
SelectVehicle ==
    /\ pc = "idle"
    /\ events < MaxEvents
    /\ Truthy(all_gemelos_digitales)
    /\ Truthy(selected_vehicle_data)
    /\ \E i \in DOMAIN VehicleNamesOf(all_gemelos_digitales) :
         LET selected_vehicle_name_from_select == VehicleNamesOf(all_gemelos_digitales)[i]
         IN  /\ selected_vehicle_name_from_select # selected_vehicle_name_display
             /\ selected_vehicle_name_display' = selected_vehicle_name_from_select
             /\ selected_vehicle_data' =
                    FirstOfName(all_gemelos_digitales, selected_vehicle_name_from_select)
    /\ events' = events + 1
    /\ pc' = "run"
    /\ UNCHANGED << all_gemelos_digitales, cache, caller, vehicle_ids_to_fetch, vi,
                    fleet_maps, stats_locals, maint_locals, direct, upstream, faults,
                    http_log, st_msgs >>

\* time passes between two events and the fleet changes upstream: from then on
\* the endpoints answer with other names and other data
UpstreamChanges ==
    /\ pc = "idle"
    /\ events < MaxEvents
    /\ events' = events + 1
    /\ upstream' \in Worlds \ {upstream}
    /\ UNCHANGED << session, cache, pc, caller, vehicle_ids_to_fetch, vi, fleet_maps,
                    stats_locals, maint_locals, direct, faults, http_log, st_msgs >>

\* a new browser session: a fresh st.session_state, the same process-wide cache
NewSession ==
    /\ pc = "idle"
    /\ events < MaxEvents
    /\ events' = events + 1
    /\ all_gemelos_digitales' = EmptyDict
    /\ SelectNone
    /\ pc' = "run"
    /\ UNCHANGED << cache, caller, vehicle_ids_to_fetch, vi, fleet_maps, stats_locals,
                    maint_locals, direct, upstream, faults, http_log, st_msgs >>

\* line 62: ttl=300
CacheExpire ==
    /\ pc = "idle"
    /\ cache # PyNone
    /\ cache' = PyNone
    /\ UNCHANGED << session, pc, caller, vehicle_ids_to_fetch, vi, fleet_maps,
                    stats_locals, maint_locals, direct, upstream, faults, http_log,
                    st_msgs, events >>

-----------------------------------------------------------------------------
(* The application: a session from its first script run *)

InitCommon ==
    /\ all_gemelos_digitales = EmptyDict
    /\ selected_vehicle_data = PyNone
    /\ selected_vehicle_name_display = ""
    /\ cache = PyNone
    /\ vehicle_ids_to_fetch = << >>
    /\ vi = 0
    /\ all_vehicle_details_map = EmptyDict
    /\ all_vehicle_locations = EmptyDict
    /\ all_vehicle_stats = EmptyDict
    /\ all_vehicle_maintenance_data = EmptyDict
    /\ combined_stats = EmptyDict
    /\ stat_type_batches = << >>
    /\ bi = 0
    /\ all_maintenance_items = << >>
    /\ next_cursor = PyNone
    /\ page_count = 0
    /\ ret = PyNone
    /\ faults = 0
    /\ http_log = << >>
    /\ st_msgs = << >>
    /\ events = 0

\* lines 505-515
Init ==
    /\ InitCommon
    /\ pc = "run"
    /\ caller = "none"
    /\ args = PyNone
    /\ target_vehicle_id = ""
    /\ upstream \in Worlds

Next ==
    \/ RunLoadCached
    \/ RunLoadFetch
    \/ RunNoLoad
    \/ FetchLocations
    \/ FetchDetails
    \/ FetchStatsBatch
    \/ MaintenancePage
    \/ MaintenanceFilter
    \/ BuildInitial
    \/ BuildFull
    \/ ClickFullFleet
    \/ ClickUpdate
    \/ SingleDetails
    \/ SingleLocations
    \/ SingleBuild
    \/ Render
    \/ NewSession
    \/ CacheExpire

Spec == Init /\ [][Next]_vars

\* the same session with a user who also picks vehicles in the selectbox, over a
\* fleet that changes upstream
NextSession ==
    \/ Next
    \/ SelectVehicle
    \/ UpstreamChanges

SpecSession == Init /\ [][NextSession]_vars

-----------------------------------------------------------------------------
(* get_vehicle_maintenance_data called on its own, on any listing *)

\* the id the lookup is for, and the ids of the other vehicles of the listing
TargetId == "7"

FillerItem(p, k) == MaintItem(IntId(10 * p + k), Lights(FALSE, FALSE, FALSE, FALSE), << >>)

TargetItem(idtype) ==
    MaintItem(IF idtype = "int" THEN IntId(7) ELSE Str(TargetId),
              Lights(TRUE, FALSE, FALSE, FALSE), << Dtc(100, 3) >>)

\* page p of a listing of P pages with N items each; the target's item is the
\* last item of page tp (no page when tp = 0).  The items are under 'key'; the
\* last page ends the listing as 'last' says: an empty endCursor, a null
\* endCursor, or no 'pagination' at all
ListingPage(p, P, N, tp, idtype, key, last) ==
    LET items == [ k \in 1..N |-> IF p = tp /\ k = N THEN TargetItem(idtype)
                                  ELSE FillerItem(p, k) ]
        body == IF key = "vehicleMaintenance" THEN [vehicleMaintenance |-> items]
                ELSE [vehicleMaintenance |-> << >>, vehicles |-> items]
        cursor == IF p < P THEN Str(ToString(p)) ELSE IF last = "empty" THEN Str("")
                  ELSE PyNone
    IN  IF p = P /\ last = "absent" THEN body
        ELSE Update(body, [pagination |-> [endCursor |-> cursor]])

Listing(P, N, tp, idtype, key, last) ==
    [ p \in 1..P |-> ListingPage(p, P, N, tp, idtype, key, last) ]

InitMaint ==
    /\ InitCommon
    /\ pc = "maint"
    /\ caller = "direct"
    /\ target_vehicle_id = TargetId
    /\ \E P \in 1..MaxPages, N \in 0..MaxItems, idtype \in {"int", "str"},
          key \in {"vehicleMaintenance", "vehicles"}, last \in {"empty", "null", "absent"} :
         \E tp \in (IF N = 0 THEN {0} ELSE 0..P) :
            /\ args = [target_vehicle_id |-> TargetId, pages |-> P, items |-> N,
                       target_page |-> tp]
            /\ upstream = [maintenance |-> Listing(P, N, tp, idtype, key, last)]

NextMaint == MaintenancePage \/ MaintenanceFilter

SpecMaint == InitMaint /\ [][NextMaint]_vars

\* the loop is a sequential program: it takes its next step
FairSpecMaint == SpecMaint /\ WF_vars(NextMaint)

-----------------------------------------------------------------------------
(* get_all_vehicle_stats_and_filter called on its own, on any batch *)

\* the batches: every run of consecutive stat types, the empty one and the
\* whole enumeration included
AnyBatches ==
    { SubSeq(all_desired_stat_types, i, j) :
        i \in 1..Len(all_desired_stat_types), j \in 0..Len(all_desired_stat_types) }

StatsWorlds ==
    { [stats |-> [ k \in 1..2 |-> StatsEnveloped(k) ]],
      [stats |-> << StatsBare(2) >>] }

InitStats ==
    /\ InitCommon
    /\ pc = "stats_call"
    /\ caller = "direct"
    /\ target_vehicle_id = ""
    /\ upstream \in StatsWorlds
    /\ \E target \in {"1", "2", "3"}, stat_types \in AnyBatches :
         args = [target_vehicle_id |-> target, stat_types |-> stat_types]

\* lines 185-222
CallGetStats ==
    /\ pc = "stats_call"
    /\ \E resp \in StatsResponses(args.stat_types) :
         LET r == get_all_vehicle_stats_and_filter(args.target_vehicle_id,
                                                   args.stat_types, resp)
         IN  IF r.raised THEN Crash
             ELSE /\ ret' = r.value
                  /\ pc' = "done"
                  /\ http_log' = IF r.called
                                 THEN Append(http_log, Call("stats", args.target_vehicle_id,
                                                            0, resp.ok))
                                 ELSE http_log
                  /\ st_msgs' = IF ~r.called \/ ~resp.ok
                                THEN Append(st_msgs, << "error", "stats" >>) ELSE st_msgs
                  /\ faults' = FaultsAfter(resp)
                  /\ UNCHANGED << session, cache, caller, vehicle_ids_to_fetch, vi,
                                  fleet_maps, stats_locals, maint_locals, args, upstream,
                                  events >>

NextStats == CallGetStats

SpecStats == InitStats /\ [][NextStats]_vars

-----------------------------------------------------------------------------
(* process_vehicle_data called on its own *)

\* the most DTCs of a maintenance record
MaxDtcs == 2

DtcLists == { [ i \in 1..n |-> Dtc(100 * i, (5 - 2 * i) % 7) ] : n \in 0..MaxDtcs }
            \cup { << [fmiId |-> 5] >> }

\* the maintenance maps: no entry, a None entry, an empty record, a record
\* without j1939, one whose DTCs are null, and every combination of lights and DTCs
MaintenanceInputs ==
    { EmptyDict, [x \in {"1"} |-> PyNone], [x \in {"1"} |-> EmptyDict],
      [x \in {"1"} |-> [id |-> IntId(1)]],
      [x \in {"1"} |-> [id |-> IntId(1),
                        j1939 |-> [diagnosticTroubleCodes |-> PyNone]]] }
    \cup { [x \in {"1"} |-> MaintItem(IntId(1), Lights(w, e, p, s), dtcs)] :
             w \in BOOLEAN, e \in BOOLEAN, p \in BOOLEAN, s \in BOOLEAN,
             dtcs \in DtcLists }

\* the raw values a JSON field may carry besides a number; "absent" is no key
RawKinds == {"null", "string", "boolean", "map", "absent"}

RawValue(kind) ==
    IF kind = "null" THEN PyNone
    ELSE IF kind = "string" THEN Str("12.5")
    ELSE IF kind = "boolean" THEN Bool(TRUE)
    ELSE Dict([time |-> "2025-06-01T10:00:00Z"])

\* a location whose latitude, longitude and speed are of the kind
LocationOfKind(kind) ==
    IF kind = "absent"
    THEN [reverseGeo |-> [formattedLocation |-> "Av. Reforma 1, CDMX"], time |-> "not a date"]
    ELSE [latitude |-> RawValue(kind), longitude |-> RawValue(kind), speed |-> RawValue(kind),
          reverseGeo |-> [formattedLocation |-> "Av. Reforma 1, CDMX"],
          time |-> "2025-06-01T10:05:00+00:00"]

\* the locations maps: no entry, a None entry, a location of numbers, and one of
\* each other kind
LocationInputs ==
    { EmptyDict, [x \in {"1"} |-> PyNone], [x \in {"1"} |-> LocationOf(1)] }
    \cup { [x \in {"1"} |-> LocationOfKind(kind)] : kind \in RawKinds }

\* an item of the stats answer whose stat types in 'bad' are of the kind, in an
\* envelope when the kind is a string or a boolean, and the others numbers
StatsItemOfKind(bad, kind) ==
    LET good == StatsEnveloped(1)
        keys == IF kind = "absent" THEN DOMAIN good \ bad ELSE DOMAIN good
    IN  [ k \in keys |->
            IF k \notin bad THEN good[k]
            ELSE IF kind \in {"string", "boolean"} THEN Dict([value |-> RawValue(kind)])
            ELSE RawValue(kind) ]

\* the stats maps: no entry, a None entry, and what get_all_vehicle_stats_and_filter
\* returns for an item with any set of stat types of any kind
StatsInputs ==
    { EmptyDict, [x \in {"1"} |-> PyNone], [x \in {"1"} |-> EmptyDict] }
    \cup { [x \in {"1"} |-> StatsOfItem(StatsItemOfKind(bad, kind), all_desired_stat_types)] :
             bad \in SUBSET SeqToSet(all_desired_stat_types), kind \in RawKinds }

\* the arguments: every maintenance map with some locations and stats, and every
\* locations and stats map with some maintenance
BuildInputs ==
    { [vehicle_details |-> DetailsOf(1, "PR1889"), vehicle_locations |-> locations,
       vehicle_stats |-> stats, vehicle_maintenance_data |-> maintenance] :
        locations \in LocationInputs, stats \in StatsInputs,
        maintenance \in { EmptyDict, [x \in {"1"} |-> PyNone],
                          [x \in {"1"} |-> MaintItem(IntId(1), Lights(TRUE, FALSE, FALSE, TRUE),
                                                     << Dtc(100, 3) >>)] } }
    \cup
    { [vehicle_details |-> DetailsOf(1, "PR1889"), vehicle_locations |-> locations,
       vehicle_stats |-> stats, vehicle_maintenance_data |-> maintenance] :
        locations \in { EmptyDict, [x \in {"1"} |-> LocationOf(1)] },
        stats \in { EmptyDict,
                    [x \in {"1"} |-> StatsOfItem(StatsEnveloped(1), all_desired_stat_types)] },
        maintenance \in MaintenanceInputs }

InitBuild ==
    /\ InitCommon
    /\ pc = "build_call"
    /\ caller = "direct"
    /\ target_vehicle_id = ""
    /\ upstream = EmptyDict
    /\ args \in BuildInputs

\* lines 279-406
CallProcess ==
    /\ pc = "build_call"
    /\ IF ProcessRaises(args.vehicle_details, args.vehicle_stats) THEN Crash
       ELSE /\ ret' = process_vehicle_data(args.vehicle_details, args.vehicle_locations,
                                           args.vehicle_stats,
                                           args.vehicle_maintenance_data, 0)
            /\ pc' = "done"
            /\ UNCHANGED << session, cache, caller, vehicle_ids_to_fetch, vi, fleet_maps,
                            stats_locals, maint_locals, args, upstream, faults, http_log,
                            st_msgs, events >>

NextBuild == CallProcess

SpecBuild == InitBuild /\ [][NextBuild]_vars

-----------------------------------------------------------------------------
(* Properties of process_vehicle_data, under SpecBuild *)

LightOn(gemelo_digital) ==
    \/ gemelo_digital.engine_check_light_warning
    \/ gemelo_digital.engine_check_light_emissions
    \/ gemelo_digital.engine_check_light_protect
    \/ gemelo_digital.engine_check_light_stop

\* the record has a reason for an alert: a DTC, or a light that is on
HasReason(gemelo_digital) ==
    gemelo_digital.diagnostic_trouble_codes # << >> \/ LightOn(gemelo_digital)

Returned == pc = "done" /\ ret # PyNone

\* C1: in every record process_vehicle_data returns, alert_color is "red" exactly
\* when status_alert begins with "ALERTA: " and there is a reason for an alert
\* (a DTC or a light that is on); in every other case it is "green" and
\* status_alert is 'OPERANDO NORMALMENTE'; 'OFFLINE o SIN DATOS' is never produced.
C1_AlertColor ==
    Returned =>
        /\ ret.alert_color = "red"
             <=> (Head(ret.status_alert) = AlertMarker /\ HasReason(ret))
        /\ HasReason(ret) => Head(ret.status_alert) = AlertMarker
        /\ ret.alert_color # "red"
             => (ret.alert_color = "green" /\ ret.status_alert = StatusNormal)
        /\ ret.status_alert # StatusOffline

\* a record that is red for its lights alone
C1_Witness ==
    /\ Returned
    /\ ret.diagnostic_trouble_codes = << >>
    /\ ret.engine_check_light_emissions
    /\ ~ret.engine_check_light_warning
    /\ ret.alert_color = "red"
    /\ Head(ret.status_alert) = AlertMarker

\* C10: when the record has DTCs and at least one light on, status_alert is
\* "ALERTA: ", the DTC reason, "; ", the check-engine reason: two reasons, the
\* DTC reason first, each condition evaluated whatever the other gave.
C10_BothReasons ==
    (Returned /\ ret.diagnostic_trouble_codes # << >> /\ LightOn(ret)) =>
        /\ Len(DtcReason(ret.diagnostic_trouble_codes)) = 1
        /\ Len(LightReason(ret)) = 1
        /\ ret.status_alert =
              << AlertMarker >> \o DtcReason(ret.diagnostic_trouble_codes)[1]
                  \o << "; " >> \o LightReason(ret)[1]
        /\ ret.alert_color = "red"

\* two DTCs and two lights: both reasons in the status
C10_Witness ==
    /\ Returned
    /\ Len(ret.diagnostic_trouble_codes) = 2
    /\ ret.engine_check_light_warning
    /\ ret.engine_check_light_stop
    /\ ~ret.engine_check_light_emissions
    /\ ~ret.engine_check_light_protect
    /\ ret.status_alert =
         << AlertMarker, "Fallas de motor (DTCs: ", "SPN: ", "100", " (FMI: ", "3", ")",
            "; ", "SPN: ", "200", " (FMI: ", "1", ")", ")", "; ",
            "Luz de Check Engine ON (", "Advertencia (Warning)", ", ", "Detener (Stop)",
            ")" >>

\* the vehicle whose twin is built, and the entry of a side map for it
BuiltId == Get(args.vehicle_details, "id", "")

EntryOf(side_map) == Get(side_map, BuiltId, PyNone)

\* the DTC sequence of the maintenance record that was passed, << >> without one
InputDtcs ==
    LET m == EntryOf(args.vehicle_maintenance_data)
    IN  IF Truthy(m) /\ "j1939" \in DOMAIN m
           /\ "diagnosticTroubleCodes" \in DOMAIN m.j1939
           /\ m.j1939.diagnosticTroubleCodes.t = "list"
        THEN m.j1939.diagnosticTroubleCodes.v
        ELSE << >>

\* "SPN: <spnId> (FMI: <fmiId>)" of the i-th DTC of the maintenance record
DtcEntry(i) ==
    << "SPN: ", IF "spnId" \in DOMAIN InputDtcs[i] THEN ToString(InputDtcs[i].spnId) ELSE "N/A",
       " (FMI: ", IF "fmiId" \in DOMAIN InputDtcs[i] THEN ToString(InputDtcs[i].fmiId) ELSE "N/A",
       ")" >>

\* the entries of the DTCs from the i-th on, with "; " between them
RECURSIVE DtcEntriesFrom(_)
DtcEntriesFrom(i) ==
    IF i > Len(InputDtcs) THEN << >>
    ELSE IF i = Len(InputDtcs) THEN DtcEntry(i)
    ELSE DtcEntry(i) \o << "; " >> \o DtcEntriesFrom(i + 1)

\* C11: when the maintenance record has DTCs, the record returned holds them in
\* the same order, status_alert is "ALERTA: " followed by one reason
\* "Fallas de motor (DTCs: ...)" that lists "SPN: <spnId> (FMI: <fmiId>)" for
\* every DTC, in the order of the maintenance record, with "; " between them,
\* and alert_color is "red".
C11_DtcRoundTrip ==
    (Returned /\ InputDtcs # << >>) =>
        LET reason == << "Fallas de motor (DTCs: " >> \o DtcEntriesFrom(1) \o << ")" >>
        IN  /\ ret.diagnostic_trouble_codes = InputDtcs
            /\ Len(ret.status_alert) >= 1 + Len(reason)
            /\ SubSeq(ret.status_alert, 1, 1 + Len(reason)) = << AlertMarker >> \o reason
            /\ Len(ret.status_alert) > 1 + Len(reason)
                 => ret.status_alert[2 + Len(reason)] = "; "
            /\ ret.alert_color = "red"

\* SPN 100 / FMI 3 before SPN 200 / FMI 1, no light on
C11_Witness ==
    /\ Returned
    /\ Len(InputDtcs) = 2
    /\ InputDtcs[1].spnId = 100 /\ InputDtcs[1].fmiId = 3
    /\ InputDtcs[2].spnId = 200 /\ InputDtcs[2].fmiId = 1
    /\ ret.status_alert =
         << AlertMarker, "Fallas de motor (DTCs: ", "SPN: ", "100", " (FMI: ", "3", ")",
            "; ", "SPN: ", "200", " (FMI: ", "1", ")", ")" >>
    /\ ret.alert_color = "red"

\* the four lights with their labels, in the fixed order
LightLabels ==
    << << "engine_check_light_warning", "Advertencia (Warning)" >>,
       << "engine_check_light_emissions", "Emisiones (Emissions)" >>,
       << "engine_check_light_protect", "Protección (Protect)" >>,
       << "engine_check_light_stop", "Detener (Stop)" >> >>

\* the labels of the lights of the record that are on, from the i-th light on,
\* with ", " between them
RECURSIVE LabelsFrom(_, _)
LabelsFrom(gemelo_digital, i) ==
    IF i > Len(LightLabels) THEN << >>
    ELSE LET rest == LabelsFrom(gemelo_digital, i + 1)
         IN  IF ~gemelo_digital[LightLabels[i][1]] THEN rest
             ELSE IF rest = << >> THEN << LightLabels[i][2] >>
             ELSE << LightLabels[i][2], ", " >> \o rest

\* the lights of the maintenance record that was passed
InputLights ==
    LET m == EntryOf(args.vehicle_maintenance_data)
        lights == IF Truthy(m) /\ "j1939" \in DOMAIN m /\ "checkEngineLight" \in DOMAIN m.j1939
                  THEN m.j1939.checkEngineLight ELSE EmptyDict
    IN  [ engine_check_light_warning |-> Get(lights, "warningIsOn", FALSE),
          engine_check_light_emissions |-> Get(lights, "emissionsIsOn", FALSE),
          engine_check_light_protect |-> Get(lights, "protectIsOn", FALSE),
          engine_check_light_stop |-> Get(lights, "stopIsOn", FALSE) ]

C13_NoAlert ==
    /\ (Returned /\ ~HasReason(ret)) =>
          (ret.status_alert = StatusNormal /\ ret.alert_color = "green")
    /\ (Returned /\ ~Truthy(EntryOf(args.vehicle_maintenance_data))) => ~HasReason(ret)

\* no maintenance record, no location, no stats: normal and green
C13_Witness ==
    /\ Returned
    /\ BuiltId \notin DOMAIN args.vehicle_maintenance_data
    /\ BuiltId \notin DOMAIN args.vehicle_locations
    /\ BuiltId \notin DOMAIN args.vehicle_stats
    /\ ret.status_alert = StatusNormal
    /\ ret.alert_color = "green"

\* the fields of the twin that are read from the location (lines 309-325)
LocationFields ==
    {"latitude", "longitude", "speed_mph", "current_address", "location_updated_at"}

\* the record built from the same details, stats and maintenance and the
\* locations given
BuiltWith(vehicle_locations) ==
    process_vehicle_data(args.vehicle_details, vehicle_locations, args.vehicle_stats,
                         args.vehicle_maintenance_data, ret.last_data_sync)

\* C14: when the locations map has no entry for the vehicle's id, latitude,
\* longitude, speed_mph and current_address (and location_updated_at) of the
\* record are 'N/A', and every field that is not read from the location has the
\* value it has in the record built from the same details, stats and
\* maintenance with a location entry, whatever that entry is.
C14_MissingLocation ==
    (Returned /\ BuiltId \notin DOMAIN args.vehicle_locations) =>
        /\ ret.latitude = NA
        /\ ret.longitude = NA
        /\ ret.speed_mph = NA
        /\ ret.current_address = "N/A"
        /\ ret.location_updated_at = "N/A"
        /\ \A vehicle_locations \in LocationInputs :
              \A f \in DOMAIN ret \ LocationFields :
                 BuiltWith(vehicle_locations)[f] = ret[f]

\* no location entry, with stats and a maintenance record that raises an alert
C14_Witness ==
    /\ Returned
    /\ BuiltId \notin DOMAIN args.vehicle_locations
    /\ ret.latitude = NA
    /\ ret.current_address = "N/A"
    /\ ret.engine_rpm = Num(1200000)
    /\ ret.alert_color = "red"
    /\ BuiltWith([x \in {BuiltId} |-> LocationOf(1)]).latitude # NA

\* the fields of the twin that are read from the stats (lines 328-359)
StatFields ==
    {"engine_hours", "engine_oil_pressure_kpa", "engine_coolant_temperature_c",
     "engine_rpm", "ambient_air_temperature_c"}

\* C15: process_vehicle_data returns, with the sentinels and defaults in the
\* fields of that source, when the locations, the stats or the maintenance map
\* has no entry for the vehicle's id, and when the locations or the maintenance
\* entry is None (the single-vehicle fetch passes {vehicle_id: None} for a
\* maintenance record it did not get).  It raises in one case only: a None
\* entry in the stats map, which no caller passes.
C15_MissingEntries ==
    /\ pc = "crashed" =>
          (BuiltId \in DOMAIN args.vehicle_stats /\ EntryOf(args.vehicle_stats) = PyNone)
    /\ Returned =>
          /\ EntryOf(args.vehicle_locations) = PyNone =>
                /\ \A f \in {"latitude", "longitude", "speed_mph"} : ret[f] = NA
                /\ ret.current_address = "N/A"
                /\ ret.location_updated_at = "N/A"
          /\ BuiltId \notin DOMAIN args.vehicle_stats =>
                \A f \in StatFields : ret[f] = NA
          /\ EntryOf(args.vehicle_maintenance_data) = PyNone =>
                /\ ~LightOn(ret)
                /\ ret.diagnostic_trouble_codes = << >>
                /\ ret.status_alert = StatusNormal
                /\ ret.alert_color = "green"

\* no locations entry, no stats entry, a None maintenance entry: a record of
\* sentinels is returned
C15_Witness ==
    /\ Returned
    /\ BuiltId \notin DOMAIN args.vehicle_locations
    /\ BuiltId \notin DOMAIN args.vehicle_stats
    /\ BuiltId \in DOMAIN args.vehicle_maintenance_data
    /\ args.vehicle_maintenance_data[BuiltId] = PyNone
    /\ ret.engine_rpm = NA
    /\ ret.latitude = NA
    /\ ret.status_alert = StatusNormal

-----------------------------------------------------------------------------
(* Properties of get_all_vehicle_stats_and_filter, under SpecStats *)

\* C7: a call with a batch of 0 stat types, or of more than 4, reports an error
\* and returns None without any request.
C7_BatchPrecondition ==
    (pc = "done" /\ (Len(args.stat_types) = 0 \/ Len(args.stat_types) > 4)) =>
        /\ ret = PyNone
        /\ http_log = << >>
        /\ st_msgs = << << "error", "stats" >> >>

\* the whole enumeration, 5 stat types, in one batch: rejected without a request
C7_Witness ==
    /\ pc = "done"
    /\ Len(args.stat_types) = 5
    /\ ret = PyNone
    /\ http_log = << >>

-----------------------------------------------------------------------------
(* Properties of get_vehicle_maintenance_data, under SpecMaint *)

NoFailedCall == \A i \in 1..Len(http_log) : http_log[i].ok

RECURSIVE ItemsOfPages(_)
ItemsOfPages(n) ==
    IF n = 0 THEN << >> ELSE ItemsOfPages(n - 1) \o PageItems(upstream.maintenance[n])

\* C3: when every page request succeeds, every page of the listing was requested,
\* the accumulated list is the items of all the pages (P pages of N items give
\* P x N items), and the lookup returns the target's record whatever the page
\* it is on (None when it is on no page).
C3_AllPagesAccumulated ==
    (pc = "done" /\ NoFailedCall) =>
        /\ Len(http_log) = args.pages
        /\ all_maintenance_items = ItemsOfPages(args.pages)
        /\ Len(all_maintenance_items) = args.pages * args.items
        /\ args.target_page > 0 => (ret # PyNone /\ PyStr(ret.id) = TargetId)
        /\ args.target_page = 0 => ret = PyNone

\* 3 pages, the target on page 2 only
C3_Witness ==
    /\ pc = "done"
    /\ NoFailedCall
    /\ args.pages = 3
    /\ args.items = 2
    /\ args.target_page = 2
    /\ Len(all_maintenance_items) = 6
    /\ ret # PyNone
    /\ PyStr(ret.id) = TargetId

\* C4: a failed page request, on any page, makes the call return None, also
\* when the pages accumulated before it hold the target's record.
C4_FailureReturnsNone ==
    (pc = "done" /\ ~NoFailedCall) => ret = PyNone

\* page 1 held the target, the request of page 2 failed
C4_Witness ==
    /\ pc = "done"
    /\ Len(http_log) = 2
    /\ http_log[1].ok
    /\ ~http_log[2].ok
    /\ FoundVehicleData(all_maintenance_items, TargetId) # PyNone
    /\ ret = PyNone

\* C5: a page is requested only at the start of the call or when the response
\* before it was received with a non-empty endCursor (so none is requested after
\* a response whose endCursor is empty or absent, or after a failure), and on a
\* listing that ends or fails the call eventually returns.
C5_LoopTerminates ==
    /\ [][ http_log' # http_log =>
              /\ pc = "maint"
              /\ page_count = 0 \/ CursorTruthy(next_cursor)
              /\ page_count = Len(http_log)
              /\ NoFailedCall ]_vars
    /\ <>(pc = "done")

\* the call returned after a page whose endCursor is null
C5_Witness ==
    /\ pc = "done"
    /\ NoFailedCall
    /\ Len(http_log) = 2
    /\ args.pages = 2
    /\ next_cursor = PyNone

-----------------------------------------------------------------------------
(* Properties of the fetch cycles, under Spec *)

\* a fleet refresh cycle is over: the fetch and the build loop have run, and the
\* calls of the cycle are still in http_log
CycleDone ==
    \/ pc = "run" /\ caller = "full"
    \/ pc = "render" /\ caller = "initial"

Calls(fn, vehicle) ==
    { i \in 1..Len(http_log) : http_log[i].fn = fn /\ http_log[i].vehicle = vehicle }

DetailsFetched == { id \in SeqToSet(vehicle_ids_to_fetch) :
                      \E i \in Calls("details", id) : http_log[i].ok }

\* C2: after a fleet refresh cycle the details of every requested id were
\* requested, whichever of them failed, and the ids of the fleet store are
\* exactly the requested ids whose details fetch succeeded.
C2_FailedDetailsSkipped ==
    CycleDone =>
        /\ vehicle_ids_to_fetch = HARDCODED_VEHICLE_IDS
        /\ \A id \in SeqToSet(HARDCODED_VEHICLE_IDS) : Calls("details", id) # {}
        /\ DOMAIN all_gemelos_digitales = DetailsFetched

\* the details of the first id failed, the second id is in the store
C2_Witness ==
    /\ CycleDone
    /\ "1" \notin DetailsFetched
    /\ Calls("details", "1") # {}
    /\ "2" \in DetailsFetched
    /\ DOMAIN all_gemelos_digitales = {"2"}

\* the place of a call in the sequence of its vehicle: details, the stats
\* batches in batch order, the maintenance pages in page order
Rank(call) ==
    IF call.fn = "details" THEN 0
    ELSE IF call.fn = "stats" THEN call.n
    ELSE Len(stat_type_batches) + call.n

PositionOf(vehicle) == CHOOSE k \in 1..Len(vehicle_ids_to_fetch) :
                          vehicle_ids_to_fetch[k] = vehicle

PerVehicle == { i \in 1..Len(http_log) : http_log[i].fn # "locations" }

\* C6: the calls are issued one after the other (each step adds at most one call
\* to the end of the sequence of calls); the calls of a vehicle come after
\* those of the vehicles before it in the sequence of ids and before those of
\* the vehicles after it; for one vehicle the order is details, the stats batches
\* in batch order, the maintenance pages; stats and maintenance calls follow a
\* successful details call of their vehicle.  In the fleet fetch and in the
\* single-vehicle fetch.
C6_CallOrder ==
    /\ \A i \in PerVehicle : http_log[i].vehicle \in SeqToSet(vehicle_ids_to_fetch)
    /\ \A i, j \in PerVehicle :
          i < j =>
            \/ PositionOf(http_log[i].vehicle) < PositionOf(http_log[j].vehicle)
            \/ /\ http_log[i].vehicle = http_log[j].vehicle
               /\ Rank(http_log[i]) < Rank(http_log[j])
    /\ \A j \in PerVehicle :
          http_log[j].fn # "details" =>
            \E i \in Calls("details", http_log[j].vehicle) : i < j /\ http_log[i].ok
    /\ \A j \in PerVehicle :
          (http_log[j].fn = "maintenance" /\ http_log[j].n = 1) =>
             \A b \in 1..Len(stat_type_batches) :
                \E i \in Calls("stats", http_log[j].vehicle) : i < j /\ http_log[i].n = b

\* the fleet fetch: the calls of the first vehicle, then the second's details
C6_Witness ==
    /\ IsFleet
    /\ Len(http_log) >= 7
    /\ [ i \in 1..7 |-> << http_log[i].fn, http_log[i].vehicle, http_log[i].n >> ] =
         << << "locations", "", 0 >>, << "details", "1", 0 >>, << "stats", "1", 1 >>,
            << "stats", "1", 2 >>, << "maintenance", "1", 1 >>,
            << "maintenance", "1", 2 >>, << "details", "2", 0 >> >>

\* what the API reports for the target on a batch
Reported(target, batch) ==
    get_all_vehicle_stats_and_filter(target, batch, OkResponse(ApiStats(batch))).value

\* the results of the batches of the current vehicle that were returned
ReturnedBatches ==
    { r \in { Reported(target_vehicle_id, stat_type_batches[http_log[i].n]) :
                i \in { k \in Calls("stats", target_vehicle_id) : http_log[k].ok } } :
        Truthy(r) }

\* C8: the batches of the callers have 1 to 4 stat types each, are pairwise
\* disjoint and cover the enumeration; combined_stats of the current vehicle is
\* the key union of the results of its batches that were returned: a failed
\* batch adds nothing and removes nothing.
C8_BatchesPartitionAndMerge ==
    /\ stat_type_batches # << >> =>
         /\ \A b \in 1..Len(stat_type_batches) :
               Len(stat_type_batches[b]) \in 1..4
         /\ \A a, b \in 1..Len(stat_type_batches) :
               a # b => SeqToSet(stat_type_batches[a]) \cap SeqToSet(stat_type_batches[b]) = {}
         /\ UNION { SeqToSet(stat_type_batches[b]) : b \in 1..Len(stat_type_batches) }
               = SeqToSet(all_desired_stat_types)
    /\ pc \in {"stats", "maint", "maint_filter", "s_locations", "s_build"} =>
         /\ DOMAIN combined_stats = UNION { DOMAIN r : r \in ReturnedBatches }
         /\ \A r \in ReturnedBatches : \A k \in DOMAIN r : combined_stats[k] = r[k]

\* the first batch was returned, the second failed: the keys of the first remain
C8_Witness ==
    /\ pc = "maint"
    /\ \E i, j \in Calls("stats", target_vehicle_id) :
          /\ http_log[i].n = 1 /\ http_log[i].ok
          /\ http_log[j].n = 2 /\ ~http_log[j].ok
    /\ DOMAIN combined_stats = SeqToSet(stat_type_batches[1])

\* the field of the twin a stat type feeds (lines 328-359)
FieldOfStat ==
    [ engineCoolantTemperatureMilliC |-> "engine_coolant_temperature_c",
      ambientAirTemperatureMilliC |-> "ambient_air_temperature_c",
      engineRpm |-> "engine_rpm",
      obdEngineSeconds |-> "engine_hours",
      engineOilPressureKPa |-> "engine_oil_pressure_kpa" ]

Failed(fn, vehicle) == \E i \in Calls(fn, vehicle) : ~http_log[i].ok

\* C9: no failure of a request raises; after a fleet refresh cycle every vehicle
\* whose details were fetched is in the store, with 'N/A' in the location fields
\* when the locations request failed, 'N/A' in the fields of the stat types of a
\* failed batch, no light, no DTC when its maintenance request failed, and the
\* status 'OPERANDO NORMALMENTE' exactly when it has no DTC and no light on.
C9_FailuresAreAbsentResults ==
    /\ pc # "crashed"
    /\ CycleDone =>
         \A id \in DetailsFetched :
            /\ id \in DOMAIN all_gemelos_digitales
            /\ LET twin == all_gemelos_digitales[id]
               IN  /\ Failed("locations", "") =>
                         /\ twin.latitude = NA
                         /\ twin.longitude = NA
                         /\ twin.speed_mph = NA
                         /\ twin.current_address = "N/A"
                         /\ twin.location_updated_at = "N/A"
                   /\ \A i \in Calls("stats", id) :
                         ~http_log[i].ok =>
                            \A k \in SeqToSet(stat_type_batches[http_log[i].n]) :
                               twin[FieldOfStat[k]] = NA
                   /\ Failed("maintenance", id) =>
                         (~LightOn(twin) /\ twin.diagnostic_trouble_codes = << >>)
                   /\ twin.status_alert = StatusNormal <=> ~HasReason(twin)
                   /\ twin.alert_color = "green" <=> ~HasReason(twin)

\* vehicle 1 has DTCs upstream; its first stats batch and its maintenance
\* request failed: it is in the store, without engine data, status normal
C9_Witness ==
    /\ CycleDone
    /\ "1" \in DOMAIN all_gemelos_digitales
    /\ \E i \in Calls("stats", "1") : http_log[i].n = 1 /\ ~http_log[i].ok
    /\ Failed("maintenance", "1")
    /\ all_gemelos_digitales["1"].engine_rpm = NA
    /\ all_gemelos_digitales["1"].engine_oil_pressure_kpa # NA
    /\ all_gemelos_digitales["1"].status_alert = StatusNormal

-----------------------------------------------------------------------------
(* The numeric fields of the twin, under SpecBuild *)

NumericFields ==
    {"latitude", "longitude", "speed_mph", "engine_hours", "engine_oil_pressure_kpa",
     "engine_coolant_temperature_c", "engine_rpm", "ambient_air_temperature_c"}

IsNumberOrSentinel(x) == x = NA \/ x.t = "num"

\* C16, as claimed: in every record returned, each numeric field is a number or
\* 'N/A'.  It does not hold: latitude and longitude are copied from the location
\* as they are (null, a string, a boolean, a map), and a boolean engineRpm is
\* copied into engine_rpm.
C16_NumericOrSentinel ==
    Returned => \A f \in NumericFields : IsNumberOrSentinel(ret[f])

\* a location with null latitude and longitude: the record holds None in both
C16_NullCopied ==
    /\ Returned
    /\ Truthy(EntryOf(args.vehicle_locations))
    /\ "latitude" \in DOMAIN EntryOf(args.vehicle_locations)
    /\ EntryOf(args.vehicle_locations).latitude = PyNone
    /\ ret.latitude = PyNone
    /\ ret.longitude = PyNone
    /\ ret.speed_mph = NA

\* the stat types of the stats entry that was passed whose value is missing or
\* is not a number
NonNumericStats ==
    LET stats_data == Get(args.vehicle_stats, BuiltId, EmptyDict)
    IN  { k \in SeqToSet(all_desired_stat_types) :
            k \notin DOMAIN stats_data \/ stats_data[k].t # "num" }

\* C17, as claimed: the field of every stat type whose input is missing or is
\* not a number is 'N/A'.  It does not hold: a boolean passes
\* isinstance(x, (int, float)) and is scaled, rounded or copied as a number.
C17_NonNumericStatsFallBack ==
    Returned => \A k \in NonNumericStats : ret[FieldOfStat[k]] = NA

\* boolean stats: engine_rpm holds True, engine_oil_pressure_kpa 1, engine_hours 0.0
C17_BooleanScaled ==
    /\ Returned
    /\ NonNumericStats = SeqToSet(all_desired_stat_types)
    /\ ret.engine_rpm = Bool(TRUE)
    /\ ret.engine_oil_pressure_kpa = Num(1000)
    /\ ret.engine_hours = Num(0)
    /\ ret.engine_coolant_temperature_c = Num(0)

-----------------------------------------------------------------------------
(* The session state across the handlers, under SpecSession *)

\* C18: a single-vehicle refresh changes only the store entry of the refreshed
\* id.  The step that ends a successful refresh puts the record built from what
\* was fetched under the id of the selected vehicle, selects it, and leaves the
\* keys of the store and every other record as they were; every other step of the
\* refresh, a failed details fetch and the page drawn after it included, leaves
\* the store and the selected record unchanged.
C18_SingleRefreshFrame ==
    [][ caller = "update" =>
          IF pc = "s_build" /\ pc' = "run"
          THEN LET selected_vehicle_id == selected_vehicle_data.vehicle_id
                   updated_gemelo ==
                       process_vehicle_data(all_vehicle_details_map[selected_vehicle_id],
                                            all_vehicle_locations, all_vehicle_stats,
                                            all_vehicle_maintenance_data, events)
               IN  /\ DOMAIN all_gemelos_digitales' = DOMAIN all_gemelos_digitales
                   /\ \A id \in DOMAIN all_gemelos_digitales \ {selected_vehicle_id} :
                         all_gemelos_digitales'[id] = all_gemelos_digitales[id]
                   /\ all_gemelos_digitales'[selected_vehicle_id] = updated_gemelo
                   /\ updated_gemelo.vehicle_id = selected_vehicle_id
                   /\ selected_vehicle_data' = updated_gemelo
          ELSE UNCHANGED << all_gemelos_digitales, selected_vehicle_data >> ]_vars

\* a refresh of one of two vehicles has succeeded at a later time than the load:
\* its twin is of now, the other twin is the one of the load
C18_Witness ==
    /\ pc = "run"
    /\ caller = "update"
    /\ Cardinality(DOMAIN all_gemelos_digitales) = 2
    /\ all_gemelos_digitales[selected_vehicle_data.vehicle_id] = selected_vehicle_data
    /\ selected_vehicle_data.last_data_sync = events
    /\ \E id \in DOMAIN all_gemelos_digitales :
          all_gemelos_digitales[id].last_data_sync < events

\* C19, as claimed: when the script has ended, selected_vehicle_data is None or
\* is the record the store holds under its own vehicle_id, and
\* selected_vehicle_name_display is the name of that record.  It does not hold:
\* the single refresh (lines 647-652) stores and selects the new record and
\* leaves selected_vehicle_name_display as it was, and when the refreshed vehicle
\* was renamed upstream while another twin still bears the old name, the
\* selectbox finds the old name among its options and nothing corrects it.
C19_SelectionConsistent ==
    pc = "idle" =>
       \/ selected_vehicle_data = PyNone
       \/ /\ selected_vehicle_data.vehicle_id \in DOMAIN all_gemelos_digitales
          /\ all_gemelos_digitales[selected_vehicle_data.vehicle_id] = selected_vehicle_data
          /\ selected_vehicle_name_display = selected_vehicle_data.vehicle_name

\* the script has ended with the refreshed twin of vehicle 1 selected under its
\* new name, and the name displayed is the old one, which is the name of the
\* other twin
C19_StaleName ==
    /\ pc = "idle"
    /\ selected_vehicle_data # PyNone
    /\ all_gemelos_digitales[selected_vehicle_data.vehicle_id] = selected_vehicle_data
    /\ selected_vehicle_name_display # selected_vehicle_data.vehicle_name
    /\ \E id \in DOMAIN all_gemelos_digitales \ {selected_vehicle_data.vehicle_id} :
          all_gemelos_digitales[id].vehicle_name = selected_vehicle_name_display

=============================================================================
